---- MODULE Spec2Model ----
(***************************************************************************)
(* Model of the IMO25 JSON-to-HTML report generator                        *)
(* (code/json_to_html_converter.py, code/convert_all_json.py).             *)
(*                                                                         *)
(* A JSON object is a function from its keys to its values, so a missing   *)
(* field is a key outside DOMAIN.  Free text is a sequence of one-character*)
(* strings.  Generated HTML is a sequence of string fragments, in the      *)
(* order in which the code concatenates them.                              *)
(***************************************************************************)
EXTENDS Integers, Sequences, FiniteSets, TLC

VARIABLES
    call,        \* the pending call of a rendering function: its name and arguments
    result,      \* what that call returned (NotCalled before it ran)
    json_files,  \* convert_all_json.main: the files found by glob
    pc,          \* convert_all_json.main: position in main
    next_file,   \* convert_all_json.main: position of the for loop in json_files
    successful,  \* convert_all_json.main: counter
    failed,      \* convert_all_json.main: counter
    outcomes,    \* what each call of convert_json_to_html did, in call order
    fs           \* the output directory: file stem -> content of <stem>_converted.html

vars == <<call, result, json_files, pc, next_file, successful, failed, outcomes, fs>>

----------------------------------------------------------------------------
(* Bounds *)

MaxRuns == 2
MaxIters == 2
MaxLen == 5
MaxFiles == 2
MaxWritten == 3
MaxPieces == 3
MaxParts == 4

----------------------------------------------------------------------------
(* JSON objects *)

EmptyObj == <<>>

\* Python's None, as dict.get(key) returns it for a missing key
None == "None"

\* dict.get(key, default)
Get(obj, key, default) == IF key \in DOMAIN obj THEN obj[key] ELSE default

\* an object with at most the one field key, its value drawn from Vals
Opt(key, Vals) == {EmptyObj} \cup {key :> v : v \in Vals}

\* the elements of a sequence
Range(s) == { s[i] : i \in DOMAIN s }

\* the sequences over S of length at most n
SeqUpTo(S, n) == UNION {[1..k -> S] : k \in 0..n}

RECURSIVE SumSeq(_)
\* sum(...) over a sequence of integers
SumSeq(s) == IF s = <<>> THEN 0 ELSE Head(s) + SumSeq(Tail(s))

RECURSIVE Concat(_)
\* html += part, for every part of a sequence of fragments
Concat(parts) == IF parts = <<>> THEN <<>> ELSE Head(parts) \o Concat(Tail(parts))

RECURSIVE Join(_)
\* the text of a sequence of one-character strings, as an f-string inserts it
Join(text) == IF text = <<>> THEN "" ELSE Head(text) \o Join(Tail(text))

----------------------------------------------------------------------------
(* Text: str.replace, str.strip, str.upper, markdown.markdown *)

Whitespace == {" ", "\n"}

RECURSIVE Replace(_, _, _)
\* s.replace(old, new): every non-overlapping occurrence, left to right
Replace(s, old, new) ==
    IF Len(s) < Len(old) THEN s
    ELSE IF SubSeq(s, 1, Len(old)) = old
         THEN new \o Replace(SubSeq(s, Len(old) + 1, Len(s)), old, new)
         ELSE <<Head(s)>> \o Replace(Tail(s), old, new)

RECURSIVE LStrip(_)
LStrip(s) == IF s # <<>> /\ Head(s) \in Whitespace THEN LStrip(Tail(s)) ELSE s

RECURSIVE RStrip(_)
RStrip(s) == IF s # <<>> /\ s[Len(s)] \in Whitespace
             THEN RStrip(SubSeq(s, 1, Len(s) - 1)) ELSE s

\* s.strip()
Strip(s) == RStrip(LStrip(s))

\* a mutant of NormalizeLists: only the first "\n*" gets its blank line
NormalizeLists_FirstOnly(s) ==
    IF \E i \in 1..(Len(s) - 1) : s[i] = "\n" /\ s[i + 1] = "*"
    THEN LET i == CHOOSE j \in 1..(Len(s) - 1) :
                     /\ s[j] = "\n" /\ s[j + 1] = "*"
                     /\ \A h \in 1..(j - 1) : ~(s[h] = "\n" /\ s[h + 1] = "*")
         IN SubSeq(s, 1, i) \o <<"\n">> \o SubSeq(s, i + 1, Len(s))
    ELSE s

\* the pre-processing "\n*" -> "\n\n*" done before every markdown conversion
NormalizeLists(s) == Replace(s, <<"\n", "*">>, <<"\n", "\n", "*">>)

\* str.upper() on the status words the documents carry
Upper(w) ==
    CASE w = "failed" -> "FAILED"
      [] w = "ok" -> "OK"
      [] w = "unknown" -> "UNKNOWN"
      [] w = "correct" -> "CORRECT"
      [] w = "incorrect" -> "INCORRECT"
      [] OTHER -> w

\* markdown.markdown(text, extensions=[...]): the library returns the empty
\* string for a source that is blank after stripping, and otherwise the
\* rich-text rendering of the source (kept here as one paragraph fragment).
Markdown(text) ==
    IF Strip(text) = <<>> THEN <<>>
    ELSE << "<p>" \o Join(Strip(text)) \o "</p>" >>

----------------------------------------------------------------------------
(* create_stats_section *)

\* a mutant of IsFailed: the status is compared without regard to case
IsFailed_AnyCase(run) == Upper(Get(run, "status", None)) = "FAILED"

\* run.get("status") == "failed"
IsFailed(run) == Get(run, "status", None) = "failed"

\* a mutant of Counter: an absent counter counts as 1
Counter_DefaultOne(iter, key) == Get(iter, key, 1)

\* iter.get("correct_count", 0), iter.get("error_count", 0)
Counter(iter, key) == Get(iter, key, 0)

\* the six counters computed at the top of create_stats_section
ComputeStats(data) ==
    LET runs == Get(data, "runs", <<>>)
        total_runs == Len(runs)
        failed_runs == SumSeq([r \in DOMAIN runs |-> IF IsFailed(runs[r]) THEN 1 ELSE 0])
        successful_runs == total_runs - failed_runs
        total_iterations == SumSeq([r \in DOMAIN runs |->
                                Len(Get(runs[r], "iterations", <<>>))])
        total_correct == SumSeq([r \in DOMAIN runs |->
                             LET its == Get(runs[r], "iterations", <<>>)
                             IN SumSeq([k \in DOMAIN its |-> Counter(its[k], "correct_count")])])
        total_errors == SumSeq([r \in DOMAIN runs |->
                            LET its == Get(runs[r], "iterations", <<>>)
                            IN SumSeq([k \in DOMAIN its |-> Counter(its[k], "error_count")])])
    IN [total_runs |-> total_runs, successful_runs |-> successful_runs,
        failed_runs |-> failed_runs, total_iterations |-> total_iterations,
        total_correct |-> total_correct, total_errors |-> total_errors]

create_stats_section(data) ==
    LET s == ComputeStats(data)
    IN << "<div class=\"stats\">",
          "Total Runs", ToString(s.total_runs),
          "Successful Runs", ToString(s.successful_runs),
          "Failed Runs", ToString(s.failed_runs),
          "Total Iterations", ToString(s.total_iterations),
          "Total Correct", ToString(s.total_correct),
          "Total Errors", ToString(s.total_errors),
          "</div>" >>

----------------------------------------------------------------------------
(* format_timestamp *)

\* A timestamp text is a sequence of parts: a date, the separator "T", a
\* time of day, the UTC marker "Z", a UTC offset, or any other text.

Dates == {"2024-01-01"}

TimesOfDay == {"12:30:45"}

Offsets == {"+00:00"}

\* timestamp_str.replace("Z", "+00:00"): every "Z" of the text
ReplaceZ(ts) == [i \in DOMAIN ts |-> IF ts[i] = "Z" THEN "+00:00" ELSE ts[i]]

\* datetime.fromisoformat(s) followed by strftime("%Y-%m-%d %H:%M:%S"):
\* a date, a date and a time, or a date, a time and an offset are read, and
\* raised is TRUE for every other text, where fromisoformat raises ValueError
ParseIso(s) ==
    CASE Len(s) = 1 /\ s[1] \in Dates ->
            [raised |-> FALSE, text |-> <<s[1], " ", "00:00:00">>]
      [] Len(s) = 3 /\ s[1] \in Dates /\ s[2] = "T" /\ s[3] \in TimesOfDay ->
            [raised |-> FALSE, text |-> <<s[1], " ", s[3]>>]
      [] Len(s) = 4 /\ s[1] \in Dates /\ s[2] = "T" /\ s[3] \in TimesOfDay /\ s[4] \in Offsets ->
            [raised |-> FALSE, text |-> <<s[1], " ", s[3]>>]
      [] OTHER -> [raised |-> TRUE, text |-> <<>>]

\* a mutant of format_timestamp: the except clause returns the text it tried to parse
format_timestamp_Replaced(timestamp_str) ==
    LET dt == ParseIso(ReplaceZ(timestamp_str))
    IN IF dt.raised THEN ReplaceZ(timestamp_str) ELSE dt.text

format_timestamp(timestamp_str) ==
    LET dt == ParseIso(ReplaceZ(timestamp_str))
    IN IF dt.raised THEN timestamp_str ELSE dt.text

----------------------------------------------------------------------------
(* format_problem_statement, create_metadata_section *)

\* "*** Problem Statement ***\n\n"
Marker == <<"*", "*", "*", " ", "P", "r", "o", "b", "l", "e", "m", " ", "S", "t", "a", "t", "e", "m", "e", "n", "t", " ", "*", "*", "*", "\n", "\n">>

\* a mutant of unmarked: the marker is removed only where the statement starts with it
unmarked_LeadingOnly(statement) ==
    IF Len(statement) >= Len(Marker) /\ SubSeq(statement, 1, Len(Marker)) = Marker
    THEN SubSeq(statement, Len(Marker) + 1, Len(statement))
    ELSE statement

\* cleaned = statement.replace("*** Problem Statement ***\n\n", "")
unmarked(statement) == Replace(statement, Marker, <<>>)

\* cleaned = cleaned.strip()
trimmed(statement) == Strip(unmarked(statement))

\* the local cleaned of format_problem_statement, as handed to markdown
cleaned(statement) == NormalizeLists(trimmed(statement))

format_problem_statement(statement) ==
    IF statement = <<>> THEN << "No problem statement provided" >>
    ELSE Markdown(cleaned(statement))

create_metadata_section(data) ==
    LET metadata == Get(data, "metadata", EmptyObj)
    IN << "<div class=\"metadata\">", "<h2>Problem Information</h2>" >>
       \o (IF "problem_statement" \in DOMAIN metadata
           THEN << "<div class=\"metadata-item\">", "Problem Statement" >>
                \o format_problem_statement(metadata["problem_statement"])
                \o << "</div>" >>
           ELSE <<>>)
       \o (IF "timestamp" \in DOMAIN metadata
           THEN << "<div class=\"metadata-item\">", "Timestamp",
                   Join(format_timestamp(metadata["timestamp"])), "</div>" >>
           ELSE <<>>)
       \o (IF "model_name" \in DOMAIN metadata
           THEN << "<div class=\"metadata-item\">", "Model",
                   metadata["model_name"], "</div>" >>
           ELSE <<>>)
       \o << "</div></div>" >>

----------------------------------------------------------------------------
(* create_iteration_section, create_run_section *)

ShowSolution == "<button class=\"toggle-btn\">Show Solution</button>"

\* a mutant of HasSolution: an empty solution counts as no solution
HasSolution_Truthy(iteration) ==
    "corrected_solution" \in DOMAIN iteration /\ iteration["corrected_solution"] # <<>>

\* "corrected_solution" in iteration
HasSolution(iteration) == "corrected_solution" \in DOMAIN iteration

\* the local solution_text of create_iteration_section
solution_text(iteration) == NormalizeLists(iteration["corrected_solution"])

\* the local bug_report_text of create_iteration_section
bug_report_text(verification) == NormalizeLists(verification["bug_report"])

create_iteration_section(iteration, index) ==
    LET iteration_num == Get(iteration, "iteration", index)
        correct_count == Get(iteration, "correct_count", 0)
        error_count == Get(iteration, "error_count", 0)
        verification_result == Get(iteration, "verification_result", "unknown")
        is_correct == Get(iteration, "is_correct", FALSE)
    IN << "<div class=\"iteration\">",
          "<strong>Iteration " \o ToString(iteration_num) \o "</strong>",
          "<span class=\"status " \o (IF is_correct THEN "success" ELSE "failed") \o "\">",
          Upper(verification_result),
          "</span>",
          "Correct: " \o ToString(correct_count) \o ", Errors: " \o ToString(error_count) >>
       \o (IF HasSolution(iteration)
           THEN << ShowSolution, "<div class=\"solution-text\">" >>
                \o Markdown(solution_text(iteration))
                \o << "</div>" >>
           ELSE <<>>)
       \o (IF "verification" \in DOMAIN iteration
           THEN LET verification == iteration["verification"]
                IN << "<div class=\"verification\">", "Verification Results" >>
                   \o (IF "bug_report" \in DOMAIN verification
                       THEN << "<div class=\"bug-report\">", "<strong>Bug Report:</strong><br>" >>
                            \o Markdown(bug_report_text(verification))
                            \o << "</div>" >>
                       ELSE <<>>)
                   \o << "</div>" >>
           ELSE <<>>)
       \o << "</div>" >>

\* a mutant of Position: positions are counted from one
Position_OneBased(k) == k

\* a mutant of Position: the position is counted on from the documents converted before
Position_Carried(k) == k - 2 + next_file

\* enumerate(...): the zero-based position of the k-th element
Position(k) == k - 1

\* a mutant of StatusClass: the status is compared without regard to case
StatusClass_AnyCase(status) == IF Upper(status) = "FAILED" THEN "failed" ELSE "success"

\* status_class = "failed" if status == "failed" else "success"
StatusClass(status) == IF status = "failed" THEN "failed" ELSE "success"

create_run_section(run_data, run_index) ==
    LET run_number == Get(run_data, "run_number", run_index)
        timestamp == Join(format_timestamp(Get(run_data, "timestamp", <<>>)))
        status == Get(run_data, "status", "unknown")
        reason == Get(run_data, "reason", "")
        status_class == StatusClass(status)
        status_text == Upper(status)
        iterations == Get(run_data, "iterations", <<>>)
    IN << "<div class=\"run\">",
          "<strong>Run " \o ToString(run_number) \o "</strong>",
          "<span class=\"status " \o status_class \o "\">",
          status_text,
          "</span>",
          "<small>" \o timestamp \o "</small>",
          "<div class=\"run-content\">" >>
       \o (IF reason # "" THEN << "<p><strong>Reason:</strong> " \o reason \o "</p>" >> ELSE <<>>)
       \o (IF iterations # <<>>
           THEN << "<h3>Iterations (" \o ToString(Len(iterations)) \o ")</h3>" >>
                \o Concat([k \in DOMAIN iterations |->
                              create_iteration_section(iterations[k], Position(k))])
           ELSE <<>>)
       \o << "</div></div>" >>

----------------------------------------------------------------------------
(* The documents the rendering functions are applied to *)

Chars == {"a", "*", "\n", " "}

\* every text of at most MaxLen characters
Texts == SeqUpTo(Chars, MaxLen)

\* the empty text, a plain text, and a text with a list item run into the previous line
SomeTexts == { <<>>, <<"a">>, <<"a", "\n", "*", " ", "a">> }

\* the marker and the characters around it
Pieces == { Marker, <<"a">>, <<" ">>, <<"\n">> }

\* the texts made of at most MaxPieces pieces: with a leading marker, with a
\* marker further down, with both, with none
MarkedTexts == { Concat(ps) : ps \in SeqUpTo(Pieces, MaxPieces) }

Parts == Dates \cup TimesOfDay \cup Offsets \cup {"T", "Z", "not-a-date"}

\* the timestamp texts of at most MaxParts parts: well-formed ones, with and
\* without the UTC marker, and malformed ones
Timestamps == SeqUpTo(Parts, MaxParts)

Metadatas ==
    { EmptyObj,
      ("problem_statement" :> <<"a", "\n", "*", " ", "a">>)
         @@ ("timestamp" :> <<"2024-01-01", "T", "12:30:45", "Z">>)
         @@ ("model_name" :> "model-x") }

Statuses == {"failed", "FAILED", "ok"}

\* iterations that differ in every field create_iteration_section reads
Iterations ==
    { a @@ b @@ c @@ d @@ e @@ f @@ g :
        a \in Opt("iteration", {7}),
        b \in Opt("correct_count", {0, 2}),
        c \in Opt("error_count", {1}),
        d \in Opt("verification_result", {"incorrect"}),
        e \in Opt("is_correct", {TRUE}),
        f \in Opt("corrected_solution", SomeTexts),
        g \in Opt("verification", Opt("bug_report", SomeTexts)) }
    \cup { "corrected_solution" :> t : t \in Texts }
    \cup { "verification" :> ("bug_report" :> t) : t \in Texts }
    \cup { "corrected_solution" :> t : t \in MarkedTexts }
    \cup { "verification" :> ("bug_report" :> t) : t \in MarkedTexts }

\* iterations that differ in their label and their counters
CountedIterations ==
    { a @@ b :
        a \in Opt("iteration", {7}),
        b \in { EmptyObj, ("correct_count" :> 2) @@ ("error_count" :> 1) } }

Runs ==
    { a @@ b @@ c @@ d @@ e :
        a \in Opt("run_number", {5}),
        b \in Opt("status", Statuses),
        c \in Opt("reason", {"", "timeout"}),
        d \in Opt("timestamp", { <<"2024-01-01", "T", "12:30:45", "Z">> }),
        e \in Opt("iterations", SeqUpTo(CountedIterations, MaxIters)) }

\* runs that differ in what create_stats_section reads
StatsIterations ==
    { <<>>,
      [k \in 1..MaxIters |-> ("correct_count" :> k) @@ ("error_count" :> 3)],
      [k \in 1..MaxIters |-> IF k % 2 = 1 THEN "error_count" :> 1 ELSE "correct_count" :> 2],
      << EmptyObj >> }

StatsRuns ==
    { a @@ b :
        a \in Opt("status", {"failed", "FAILED"}),
        b \in Opt("iterations", StatsIterations) }

StatsDocuments == Opt("runs", SeqUpTo(StatsRuns, MaxRuns))

----------------------------------------------------------------------------
(* Calls of the rendering functions *)

NotCalled == [done |-> FALSE]

\* a finished call: the value it returned and the texts it handed to markdown
Returned(value, texts) == [done |-> TRUE, value |-> value, texts |-> texts]

NoCall == [fn |-> "none"]

Calls ==
    { [fn |-> "create_stats_section", data |-> d] : d \in StatsDocuments }
    \cup { [fn |-> "create_run_section", run_data |-> r, run_index |-> i] :
             r \in Runs, i \in 0..(MaxRuns - 1) }
    \cup { [fn |-> "create_iteration_section", iteration |-> it, index |-> i] :
             it \in Iterations, i \in 0..(MaxIters - 1) }
    \cup { [fn |-> "format_problem_statement", statement |-> t] :
             t \in Texts \cup MarkedTexts }
    \cup { [fn |-> "create_run_section", run_data |-> "timestamp" :> t, run_index |-> 0] :
             t \in Timestamps }
    \cup { [fn |-> "create_metadata_section", data |-> "metadata" :> m] :
             m \in Metadatas \cup { "timestamp" :> t : t \in Timestamps } }

\* main is not running
Idle ==
    /\ json_files = <<>>
    /\ pc = "idle"
    /\ next_file = 1
    /\ successful = 0
    /\ failed = 0
    /\ outcomes = <<>>
    /\ fs = <<>>

InitCalls ==
    /\ call \in Calls
    /\ result = NotCalled
    /\ Idle

CallStats ==
    /\ call.fn = "create_stats_section"
    /\ ~result.done
    /\ result' = Returned(create_stats_section(call.data), EmptyObj)
    /\ UNCHANGED <<call, json_files, pc, next_file, successful, failed, outcomes, fs>>

CallRun ==
    /\ call.fn = "create_run_section"
    /\ ~result.done
    /\ result' = Returned(create_run_section(call.run_data, call.run_index), EmptyObj)
    /\ UNCHANGED <<call, json_files, pc, next_file, successful, failed, outcomes, fs>>

CallIteration ==
    /\ call.fn = "create_iteration_section"
    /\ ~result.done
    /\ result' = Returned(create_iteration_section(call.iteration, call.index),
                          (IF HasSolution(call.iteration)
                           THEN "solution_text" :> solution_text(call.iteration)
                           ELSE EmptyObj)
                          @@ (IF /\ "verification" \in DOMAIN call.iteration
                                 /\ "bug_report" \in DOMAIN call.iteration["verification"]
                              THEN "bug_report_text" :>
                                       bug_report_text(call.iteration["verification"])
                              ELSE EmptyObj))
    /\ UNCHANGED <<call, json_files, pc, next_file, successful, failed, outcomes, fs>>

CallProblemStatement ==
    /\ call.fn = "format_problem_statement"
    /\ ~result.done
    /\ result' = Returned(format_problem_statement(call.statement),
                          IF call.statement # <<>>
                          THEN ("cleaned" :> cleaned(call.statement))
                               @@ ("trimmed" :> trimmed(call.statement))
                          ELSE EmptyObj)
    /\ UNCHANGED <<call, json_files, pc, next_file, successful, failed, outcomes, fs>>

CallMetadata ==
    /\ call.fn = "create_metadata_section"
    /\ ~result.done
    /\ result' = Returned(create_metadata_section(call.data), EmptyObj)
    /\ UNCHANGED <<call, json_files, pc, next_file, successful, failed, outcomes, fs>>

NextCalls == CallStats \/ CallRun \/ CallIteration \/ CallProblemStatement \/ CallMetadata

SpecCalls == InitCalls /\ [][NextCalls]_vars

----------------------------------------------------------------------------
(* create_html_header, create_html_footer, load_json_file, convert_json_to_html *)

\* str.title() on the characters file names are made of
TitleCase(w) ==
    LET cased(c) == c \in {"r", "u", "n", "R", "U", "N"}
        up(c) == CASE c = "r" -> "R" [] c = "u" -> "U" [] c = "n" -> "N" [] OTHER -> c
        low(c) == CASE c = "R" -> "r" [] c = "U" -> "u" [] c = "N" -> "n" [] OTHER -> c
    IN [i \in DOMAIN w |-> IF i > 1 /\ cased(w[i - 1]) THEN low(w[i]) ELSE up(w[i])]

\* title = f"IMO25 Solution Analysis - {input_filename.replace('_', ' ').title()}"
Title(input_filename) ==
    "IMO25 Solution Analysis - " \o Join(TitleCase(Replace(input_filename, <<"_">>, <<" ">>)))

create_html_header(title) ==
    << "<!DOCTYPE html>", "<title>" \o title \o "</title>", "<style>", "</head>", "<body>",
       "<h1>" \o title \o "</h1>" >>

create_html_footer == << "<script>", "</body>", "</html>" >>

\* what json.load made of the file, None where reading or decoding raised
load_json_file(file) ==
    IF file.content.kind = "invalid" THEN [kind |-> "None"] ELSE file.content

\* a mutant of Truthy: only None, the value of a failed load, is refused
Truthy_NotNone(v) == v.kind # "None"

\* the truth value Python gives a decoded JSON value, or None
Truthy(v) ==
    CASE v.kind = "object" -> v.value # EmptyObj
      [] v.kind = "array" -> v.items # <<>>
      [] v.kind = "number" -> v.number # 0
      [] v.kind = "boolean" -> v.bool
      [] OTHER -> FALSE

\* only a dict has the .get the rendering functions call
RenderRaises(v) == v.kind # "object"

\* a mutant of RunsSection: the heading is emitted for an empty run sequence too
RunsSection_AlwaysHeading(runs) ==
    << "<h2>Solution Attempts</h2>" >>
    \o Concat([r \in DOMAIN runs |-> create_run_section(runs[r], Position(r))])

\* the runs section of convert_json_to_html: if runs: heading, then every run
RunsSection(runs) ==
    IF runs # <<>>
    THEN << "<h2>Solution Attempts</h2>" >>
         \o Concat([r \in DOMAIN runs |-> create_run_section(runs[r], Position(r))])
    ELSE <<>>

\* html_content as convert_json_to_html assembles it
html_content(input_filename, data) ==
    create_html_header(Title(input_filename))
    \o create_metadata_section(data)
    \o create_stats_section(data)
    \o RunsSection(Get(data, "runs", <<>>))
    \o create_html_footer

NoFile == [exists |-> FALSE]

File(text) == [exists |-> TRUE, text |-> text]

----------------------------------------------------------------------------
(* convert_all_json.main *)

\* the name glob gives the i-th file, without directory and extension
Stem(i) == <<"r", "u", "n", "_", ToString(i)>>

\* documents that differ in metadata, in the number of runs and iterations and
\* in which of them carry their own number
NumberedIterations ==
    { <<>>,
      [k \in 1..MaxIters |-> EmptyObj],
      [k \in 1..MaxIters |-> IF k % 2 = 1 THEN "iteration" :> 7 ELSE EmptyObj] }

NumberedRuns ==
    { a @@ b :
        a \in Opt("run_number", {0, 5}),
        b \in Opt("iterations", NumberedIterations) }

Documents ==
    { a @@ b : a \in Opt("metadata", Metadatas),
               b \in Opt("runs", SeqUpTo(NumberedRuns, MaxRuns)) }

\* what the files of a batch hold: undecodable text, JSON that is not an
\* object, empty and non-empty documents
BatchContents ==
    { [kind |-> "invalid"],
      [kind |-> "null"],
      [kind |-> "array", items |-> <<1>>],
      [kind |-> "array", items |-> <<>>],
      [kind |-> "number", number |-> 0],
      [kind |-> "boolean", bool |-> FALSE],
      [kind |-> "object", value |-> EmptyObj],
      [kind |-> "object", value |-> ("metadata" :> EmptyObj) @@ ("runs" :> <<>>)],
      [kind |-> "object", value |->
          "runs" :> << ("status" :> "failed") @@ ("reason" :> "timeout")
                       @@ ("iterations" :> << ("correct_count" :> 2) @@ ("error_count" :> 1)
                                               @@ ("verification_result" :> "incorrect")
                                               @@ ("is_correct" :> FALSE),
                                               EmptyObj >>) >>] }

Batches ==
    { [i \in DOMAIN cs |-> [stem |-> Stem(i), content |-> cs[i]]] :
        cs \in SeqUpTo(BatchContents, MaxFiles) }
    \cup { << [stem |-> Stem(1), content |-> [kind |-> "object", value |-> d]] >> :
             d \in Documents }

Init ==
    /\ json_files \in Batches
    /\ pc = "start"
    /\ next_file = 1
    /\ successful = 0
    /\ failed = 0
    /\ outcomes = <<>>
    /\ fs = [i \in DOMAIN json_files |-> NoFile]
    /\ call = NoCall
    /\ result = NotCalled

\* if not json_files: print, return
NoFiles ==
    /\ pc = "start"
    /\ json_files = <<>>
    /\ pc' = "done"
    /\ UNCHANGED <<call, result, json_files, next_file, successful, failed, outcomes, fs>>

\* the files are listed, the counters are set to 0
StartConversion ==
    /\ pc = "start"
    /\ json_files # <<>>
    /\ pc' = "loop"
    /\ successful' = 0
    /\ failed' = 0
    /\ UNCHANGED <<call, result, json_files, next_file, outcomes, fs>>

Converting == pc = "loop" /\ next_file <= Len(json_files)

\* convert_json_to_html returns False because load_json_file gave a falsy value
ConvertNotLoaded ==
    /\ Converting
    /\ ~Truthy(load_json_file(json_files[next_file]))
    /\ outcomes' = Append(outcomes, [ret |-> "False", mkdir |-> FALSE])
    /\ failed' = failed + 1
    /\ next_file' = next_file + 1
    /\ UNCHANGED <<call, result, json_files, pc, successful, fs>>

\* the rendering raises: the exception leaves convert_json_to_html and main
ConvertRaises ==
    /\ Converting
    /\ Truthy(load_json_file(json_files[next_file]))
    /\ RenderRaises(load_json_file(json_files[next_file]))
    /\ outcomes' = Append(outcomes, [ret |-> "raised", mkdir |-> TRUE])
    /\ pc' = "crashed"
    /\ UNCHANGED <<call, result, json_files, next_file, successful, failed, fs>>

Renders ==
    /\ Converting
    /\ Truthy(load_json_file(json_files[next_file]))
    /\ ~RenderRaises(load_json_file(json_files[next_file]))

\* html_content of the file the loop is at
Rendered ==
    html_content(json_files[next_file].stem, load_json_file(json_files[next_file]).value)

\* the document is rendered and written
ConvertWritten ==
    /\ Renders
    /\ fs' = [fs EXCEPT ![next_file] = File(Rendered)]
    /\ outcomes' = Append(outcomes, [ret |-> "True", mkdir |-> TRUE])
    /\ successful' = successful + 1
    /\ next_file' = next_file + 1
    /\ UNCHANGED <<call, result, json_files, pc, failed>>

\* open(output_path, "w") raises: the except clause returns False
ConvertOpenFails ==
    /\ Renders
    /\ outcomes' = Append(outcomes, [ret |-> "False", mkdir |-> TRUE])
    /\ failed' = failed + 1
    /\ next_file' = next_file + 1
    /\ UNCHANGED <<call, result, json_files, pc, successful, fs>>

\* the smaller of two numbers
Min(a, b) == IF a < b THEN a ELSE b

\* f.write raises after open created the file: the except clause returns
\* False and the file keeps what had reached it, nothing or a part of the
\* document (here at most its first MaxWritten fragments)
ConvertWriteFails ==
    /\ Renders
    /\ \E n \in 0..Min(Len(Rendered) - 1, MaxWritten) :
          fs' = [fs EXCEPT ![next_file] = File(SubSeq(Rendered, 1, n))]
    /\ outcomes' = Append(outcomes, [ret |-> "False", mkdir |-> TRUE])
    /\ failed' = failed + 1
    /\ next_file' = next_file + 1
    /\ UNCHANGED <<call, result, json_files, pc, successful>>

\* the for loop is over: the counters are printed
Finish ==
    /\ pc = "loop"
    /\ next_file > Len(json_files)
    /\ pc' = "done"
    /\ UNCHANGED <<call, result, json_files, next_file, successful, failed, outcomes, fs>>

Next ==
    \/ NoFiles
    \/ StartConversion
    \/ ConvertNotLoaded
    \/ ConvertRaises
    \/ ConvertWritten
    \/ ConvertOpenFails
    \/ ConvertWriteFails
    \/ Finish

Spec == Init /\ [][Next]_vars

----------------------------------------------------------------------------
(* Claims about create_stats_section *)

StatsCalled == call.fn = "create_stats_section" /\ result.done

\* the runs of the document the statistics were computed for
CalledRuns == IF "runs" \in DOMAIN call.data THEN call.data["runs"] ELSE <<>>

\* the positions of the runs whose status field is there and is "failed"
FailedPositions ==
    { r \in DOMAIN CalledRuns :
        "status" \in DOMAIN CalledRuns[r] /\ CalledRuns[r]["status"] = "failed" }

\* every iteration of every run, as (run position, iteration position)
IterationPositions ==
    UNION { IF "iterations" \in DOMAIN CalledRuns[r]
            THEN { <<r, k>> : k \in DOMAIN CalledRuns[r]["iterations"] }
            ELSE {} : r \in DOMAIN CalledRuns }

IterationAt(p) == CalledRuns[p[1]]["iterations"][p[2]]

RECURSIVE SumOver(_, _)
\* the sum of the counter key over a set of iteration positions, 0 where it is absent
SumOver(P, key) ==
    IF P = {} THEN 0
    ELSE LET p == CHOOSE q \in P : TRUE
         IN (IF key \in DOMAIN IterationAt(p) THEN IterationAt(p)[key] ELSE 0)
            + SumOver(P \ {p}, key)

\* C1: the statistics block shows total_runs = the number of runs, failed_runs =
\* the number of runs whose status is exactly "failed", and successful_runs =
\* every other run (missing or unrecognized status included), so that
\* successful_runs + failed_runs = total_runs.
C1_RunCounters ==
    StatsCalled =>
        LET html == result.value
            total == Len(CalledRuns)
            nfailed == Cardinality(FailedPositions)
        IN /\ html[2] = "Total Runs" /\ html[3] = ToString(total)
           /\ html[4] = "Successful Runs" /\ html[5] = ToString(total - nfailed)
           /\ html[6] = "Failed Runs" /\ html[7] = ToString(nfailed)
           /\ \E ok \in 0..total, ko \in 0..total :
                 /\ html[5] = ToString(ok)
                 /\ html[7] = ToString(ko)
                 /\ ok + ko = total

\* C1 witness: statistics of a document with a failed run, a run whose status
\* is "FAILED" in another case and a run without a status
C1_Witness ==
    /\ StatsCalled
    /\ Len(CalledRuns) = 2
    /\ Cardinality(FailedPositions) = 1
    /\ \E r \in DOMAIN CalledRuns :
          "status" \notin DOMAIN CalledRuns[r] \/ CalledRuns[r]["status"] = "FAILED"

\* C2: total_iterations is the number of iterations of all runs (a run without
\* an iterations field contributes none) and total_correct / total_errors are
\* the sums of correct_count / error_count over all of them, an absent counter
\* contributing 0; the call always returns.
C2_IterationCounters ==
    StatsCalled =>
        LET html == result.value
        IN /\ html[8] = "Total Iterations"
           /\ html[9] = ToString(Cardinality(IterationPositions))
           /\ html[10] = "Total Correct"
           /\ html[11] = ToString(SumOver(IterationPositions, "correct_count"))
           /\ html[12] = "Total Errors"
           /\ html[13] = ToString(SumOver(IterationPositions, "error_count"))

\* C2 witness: statistics of a document with a run without iterations field,
\* an iteration without counters and iterations with counters
C2_Witness ==
    /\ StatsCalled
    /\ \E r \in DOMAIN CalledRuns : "iterations" \notin DOMAIN CalledRuns[r]
    /\ \E p \in IterationPositions : "correct_count" \notin DOMAIN IterationAt(p)
    /\ \E p \in IterationPositions : "error_count" \in DOMAIN IterationAt(p)
    /\ result.value[11] # "0"

----------------------------------------------------------------------------
(* Claims about create_run_section and create_iteration_section *)

RunCalled == call.fn = "create_run_section" /\ result.done

IterationCalled == call.fn = "create_iteration_section" /\ result.done

FailedBadge == "<span class=\"status failed\">"

SuccessBadge == "<span class=\"status success\">"

\* C3: the badge of a run is the failed-state badge when its status is exactly
\* "failed", and the success-state badge for every other run: a run without
\* status, with status "ok", with status "FAILED".
C3_RunBadge ==
    RunCalled =>
        LET run == call.run_data
            isFailed == "status" \in DOMAIN run /\ run["status"] = "failed"
            header == SubSeq(result.value, 1, 7)
        IN /\ header[3] = (IF isFailed THEN FailedBadge ELSE SuccessBadge)
           /\ FailedBadge \in Range(header) <=> isFailed
           /\ SuccessBadge \in Range(header) <=> ~isFailed

\* C3 witness: a run with status "FAILED" was rendered with the success badge
C3_Witness ==
    /\ RunCalled
    /\ "status" \in DOMAIN call.run_data
    /\ call.run_data["status"] = "FAILED"
    /\ result.value[3] = SuccessBadge
    /\ result.value[4] = "FAILED"

\* C5: the "Show Solution" control and the solution block are emitted exactly
\* when the iteration has a corrected_solution field; with the field there,
\* even empty, the control is followed by the block, which is empty for an
\* empty solution.
C5_SolutionToggle ==
    IterationCalled =>
        LET it == call.iteration
            html == result.value
            has == "corrected_solution" \in DOMAIN it
        IN /\ ShowSolution \in Range(html) <=> has
           /\ "<div class=\"solution-text\">" \in Range(html) <=> has
           /\ has => /\ html[7] = ShowSolution
                     /\ html[8] = "<div class=\"solution-text\">"
                     /\ it["corrected_solution"] = <<>> => html[9] = "</div>"

\* C5 witness: an iteration whose corrected_solution is the empty text got the
\* control and an empty block
C5_Witness ==
    /\ IterationCalled
    /\ "corrected_solution" \in DOMAIN call.iteration
    /\ call.iteration["corrected_solution"] = <<>>
    /\ result.value[7] = ShowSolution
    /\ result.value[9] = "</div>"

----------------------------------------------------------------------------
(* Claims about the list normalization *)

\* the texts that went through the normalization in the finished call, each
\* as the pair of the text before and the text after
Normalized ==
    IF ~result.done THEN {}
    ELSE (IF "solution_text" \in DOMAIN result.texts
          THEN { <<call.iteration["corrected_solution"], result.texts["solution_text"]>> }
          ELSE {})
         \cup (IF "bug_report_text" \in DOMAIN result.texts
               THEN { <<call.iteration["verification"]["bug_report"],
                        result.texts["bug_report_text"]>> }
               ELSE {})
         \cup (IF "cleaned" \in DOMAIN result.texts
               THEN { <<Strip(Replace(call.statement, Marker, <<>>)), result.texts["cleaned"]>> }
               ELSE {})

\* position i of s starts a line, which begins with "*" and follows another line
StarLine(s, i) == i > 1 /\ s[i] = "*" /\ s[i - 1] = "\n"

\* the line before the line that starts at position i is blank
AfterBlankLine(s, i) ==
    \E b \in 0..(i - 2) :
        /\ b = 0 \/ s[b] = "\n"
        /\ \A j \in (b + 1)..(i - 2) : s[j] = " "

\* s with one "\n" inserted before every position in P
InsertedAt(s, P) ==
    Concat([i \in DOMAIN s |-> IF i \in P THEN <<"\n", s[i]>> ELSE <<s[i]>>])

\* C7 as claimed: a blank line is inserted before every "*" line that directly
\* follows a non-blank line, a "*" line already preceded by a blank line is
\* left as it is, and nothing else changes.
C7_Claimed ==
    \A p \in Normalized :
        p[2] = InsertedAt(p[1], { i \in DOMAIN p[1] :
                                    StarLine(p[1], i) /\ ~AfterBlankLine(p[1], i) })

\* C7 as amended: one newline is inserted before every "*" that directly
\* follows a newline, whether the line before is blank or not, and nothing
\* else changes.
C7_Amended ==
    \A p \in Normalized :
        p[2] = InsertedAt(p[1], { i \in DOMAIN p[1] : StarLine(p[1], i) })

\* C7 witness: a corrected solution with a "*" line after a blank line and a
\* "*" line after a non-blank line went through the normalization
C7_Witness ==
    /\ IterationCalled
    /\ "solution_text" \in DOMAIN result.texts
    /\ LET s == call.iteration["corrected_solution"]
       IN /\ \E i \in DOMAIN s : StarLine(s, i) /\ AfterBlankLine(s, i)
          /\ \E i \in DOMAIN s : StarLine(s, i) /\ ~AfterBlankLine(s, i)
          /\ Len(result.texts["solution_text"]) = Len(s) + 2

----------------------------------------------------------------------------
(* Claims about convert_json_to_html and main *)

\* the calls of convert_json_to_html that returned True
Written == { i \in DOMAIN outcomes : outcomes[i].ret = "True" }

\* the document of the i-th file and the output text written for it
DocumentOf(i) == json_files[i].content.value

OutputOf(i) == fs[i].text

RunsOf(i) == IF "runs" \in DOMAIN DocumentOf(i) THEN DocumentOf(i)["runs"] ELSE <<>>

RunLabel(n) == "<strong>Run " \o n \o "</strong>"

IterationLabel(n) == "<strong>Iteration " \o n \o "</strong>"

Numbers == { ToString(n) : n \in 0..20 } \cup { "None", "\"None\"", "null" }

LabelFragments == { RunLabel(n) : n \in Numbers } \cup { IterationLabel(n) : n \in Numbers }

IsLabel(fragment) == fragment \in LabelFragments

\* the labels a run at position r (from one) and its iterations are to show
LabelsOfRun(run, r) ==
    LET its == IF "iterations" \in DOMAIN run THEN run["iterations"] ELSE <<>>
    IN << RunLabel(ToString(IF "run_number" \in DOMAIN run THEN run["run_number"] ELSE r - 1)) >>
       \o [k \in DOMAIN its |->
             IterationLabel(ToString(IF "iteration" \in DOMAIN its[k]
                                     THEN its[k]["iteration"] ELSE k - 1))]

\* C4: the label of the run at zero-based position i is its own run_number
\* when it has one and i otherwise, the label of the iteration at zero-based
\* position j of a run is its own iteration value when it has one and j
\* otherwise; no label is a null marker.
C4_Labels ==
    \A i \in Written :
        /\ SelectSeq(OutputOf(i), IsLabel)
             = Concat([r \in DOMAIN RunsOf(i) |-> LabelsOfRun(RunsOf(i)[r], r)])
        /\ \A k \in DOMAIN OutputOf(i) :
              OutputOf(i)[k] \notin { RunLabel("None"), IterationLabel("None"),
                                      RunLabel("\"None\""), IterationLabel("\"None\"") }

\* C4 witness: a written document whose second run has no run_number and has
\* a second iteration without iteration value, next to a run and an iteration
\* that carry their own numbers
C4_Witness ==
    \E i \in Written :
        /\ Len(RunsOf(i)) = 2
        /\ "run_number" \in DOMAIN RunsOf(i)[1]
        /\ "run_number" \notin DOMAIN RunsOf(i)[2]
        /\ "iterations" \in DOMAIN RunsOf(i)[2]
        /\ Len(RunsOf(i)[2]["iterations"]) = 2
        /\ "iteration" \in DOMAIN RunsOf(i)[2]["iterations"][1]
        /\ "iteration" \notin DOMAIN RunsOf(i)[2]["iterations"][2]
        /\ SelectSeq(OutputOf(i), IsLabel)
             = << RunLabel("5"), RunLabel("1"), IterationLabel("7"), IterationLabel("1") >>

StatLabels ==
    << "Total Runs", "Successful Runs", "Failed Runs",
       "Total Iterations", "Total Correct", "Total Errors" >>

Heading == "<h2>Solution Attempts</h2>"

\* the fragments that open the parts of the document
IsPartStart(fragment) ==
    fragment \in { "<!DOCTYPE html>", "<div class=\"metadata\">", "<div class=\"stats\">",
                   Heading, "<div class=\"run\">", "</html>" } \cup Range(StatLabels)

\* C6: the output is the shell open with the title, the metadata block, the
\* statistics block with its six counters in the fixed order, the "Solution
\* Attempts" heading with one section per run in input order exactly when
\* there are runs, and the shell close; {metadata:{}, runs:[]} gives six
\* counters 0, no metadata item and no heading.
C6_DocumentOrder ==
    \A i \in Written :
        LET text == OutputOf(i)
            runs == RunsOf(i)
        IN /\ text[1] = "<!DOCTYPE html>"
           /\ text[2] = "<title>" \o Title(json_files[i].stem) \o "</title>"
           /\ text[Len(text)] = "</html>"
           /\ SelectSeq(text, IsPartStart)
                = << "<!DOCTYPE html>", "<div class=\"metadata\">", "<div class=\"stats\">" >>
                  \o StatLabels
                  \o (IF runs # <<>> THEN << Heading >> ELSE <<>>)
                  \o [r \in DOMAIN runs |-> "<div class=\"run\">"]
                  \o << "</html>" >>
           /\ SelectSeq(text, LAMBDA f : f \in { RunLabel(n) : n \in Numbers })
                = [r \in DOMAIN runs |-> Head(LabelsOfRun(runs[r], r))]
           /\ (/\ DOMAIN DocumentOf(i) = {"metadata", "runs"}
               /\ DocumentOf(i)["metadata"] = EmptyObj
               /\ runs = <<>>)
              => /\ \A k \in DOMAIN text : text[k] \in Range(StatLabels) => text[k + 1] = "0"
                 /\ "<div class=\"metadata-item\">" \notin Range(text)
                 /\ Heading \notin Range(text)

\* C6 witness: one batch wrote the document {metadata:{}, runs:[]}, without
\* heading, and a document with a run, with the heading and the run's section
C6_Witness ==
    \E i, j \in Written :
        /\ DOMAIN DocumentOf(i) = {"metadata", "runs"}
        /\ DocumentOf(i)["metadata"] = EmptyObj
        /\ RunsOf(i) = <<>>
        /\ Heading \notin Range(OutputOf(i))
        /\ RunsOf(j) # <<>>
        /\ Heading \in Range(OutputOf(j))
        /\ "<div class=\"run\">" \in Range(OutputOf(j))

Complete(text) == text # <<>> /\ text[1] = "<!DOCTYPE html>" /\ text[Len(text)] = "</html>"

\* C8: every call of convert_json_to_html either returns True and leaves the
\* complete document in the output file, or returns False and leaves no
\* partially written output file.
C8_CompleteOrNothing ==
    \A i \in DOMAIN outcomes :
        \/ outcomes[i].ret = "True" /\ fs[i].exists /\ Complete(fs[i].text)
        \/ outcomes[i].ret = "False" /\ (fs[i].exists => Complete(fs[i].text))

Ended == pc \in {"done", "crashed"}

\* C9: when main has ended, convert_json_to_html was called once for every
\* file found, in order, every call was counted as successful or as failed,
\* and no failure of one document stopped main.
C9_EveryFileTallied ==
    Ended =>
        /\ pc = "done"
        /\ Len(outcomes) = Len(json_files)
        /\ successful + failed = Len(json_files)
        /\ successful = Cardinality(Written)

SameDocument(i, j) ==
    /\ json_files[i].content.kind = json_files[j].content.kind
    /\ json_files[i].content = json_files[j].content

TitlePositions == {2, 6}

----------------------------------------------------------------------------
(* Claims about the boilerplate marker *)

ProblemStatementCalled == call.fn = "format_problem_statement" /\ result.done

\* the positions of s at which an occurrence of the marker starts
MarkerStarts(s) ==
    { i \in 1..(Len(s) - Len(Marker) + 1) : SubSeq(s, i, i + Len(Marker) - 1) = Marker }

\* s without the characters of the marker occurrences that start at a position in P
WithoutMarkersAt(s, P) ==
    Concat([i \in DOMAIN s |->
              IF \E b \in P : b <= i /\ i < b + Len(Marker) THEN <<>> ELSE <<s[i]>>])

\* s without leading and trailing blanks and newlines
Trimmed(s) ==
    IF \A i \in DOMAIN s : s[i] \in {" ", "\n"} THEN <<>>
    ELSE LET first == CHOOSE i \in DOMAIN s :
                          s[i] \notin {" ", "\n"} /\ \A j \in 1..(i - 1) : s[j] \in {" ", "\n"}
             last == CHOOSE i \in DOMAIN s :
                         s[i] \notin {" ", "\n"} /\ \A j \in (i + 1)..Len(s) : s[j] \in {" ", "\n"}
         IN SubSeq(s, first, last)

\* the corrected solution and the bug report of the finished call, each as
\* the pair of the text before and the text handed to markdown
SolutionTexts ==
    IF ~result.done THEN {}
    ELSE (IF "solution_text" \in DOMAIN result.texts
          THEN { <<call.iteration["corrected_solution"], result.texts["solution_text"]>> }
          ELSE {})
         \cup (IF "bug_report_text" \in DOMAIN result.texts
               THEN { <<call.iteration["verification"]["bug_report"],
                        result.texts["bug_report_text"]>> }
               ELSE {})

\* no marker of a corrected solution or a bug report is removed
MarkersKept == \A p \in SolutionTexts : Cardinality(MarkerStarts(p[2])) = Cardinality(MarkerStarts(p[1]))

\* C11 as claimed: format_problem_statement removes the marker only at the
\* start of the text and leaves a later occurrence untouched, then trims; a
\* corrected solution and a bug report keep their markers.
C11_Claimed ==
    /\ (ProblemStatementCalled /\ "trimmed" \in DOMAIN result.texts) =>
          result.texts["trimmed"]
             = Trimmed(WithoutMarkersAt(call.statement, MarkerStarts(call.statement) \cap {1}))
    /\ MarkersKept

\* C11 as amended: format_problem_statement removes every occurrence of the
\* marker, at the start of the text and further down, then trims; a corrected
\* solution and a bug report keep their markers.
C11_Amended ==
    /\ (ProblemStatementCalled /\ "trimmed" \in DOMAIN result.texts) =>
          result.texts["trimmed"]
             = Trimmed(WithoutMarkersAt(call.statement, MarkerStarts(call.statement)))
    /\ MarkersKept

\* C11 witness: a problem statement with the marker at its start and once
\* more further down went through format_problem_statement and came out
\* without either
C11_Witness ==
    /\ ProblemStatementCalled
    /\ 1 \in MarkerStarts(call.statement)
    /\ Cardinality(MarkerStarts(call.statement)) = 2
    /\ result.texts["trimmed"] = <<"a">>

\* C11 witness of the other path: a corrected solution that starts with the
\* marker kept it
C11_SolutionWitness ==
    /\ IterationCalled
    /\ "solution_text" \in DOMAIN result.texts
    /\ 1 \in MarkerStarts(call.iteration["corrected_solution"])
    /\ 1 \in MarkerStarts(result.texts["solution_text"])

----------------------------------------------------------------------------
(* Claims about format_timestamp *)

MetadataCalled == call.fn = "create_metadata_section" /\ result.done

\* the timestamp texts that hold a date-time: a date, a date and a time, and
\* a date and a time followed by a UTC offset or by the UTC marker "Z"
DateTimes ==
    { <<d>> : d \in Dates }
    \cup { <<d, "T", t>> : d \in Dates, t \in TimesOfDay }
    \cup { <<d, "T", t, z>> : d \in Dates, t \in TimesOfDay, z \in Offsets \cup {"Z"} }

\* what is to be displayed for the timestamp text ts
Displayed(ts) ==
    IF ts \in DateTimes
    THEN ts[1] \o " " \o (IF Len(ts) >= 3 THEN ts[3] ELSE "00:00:00")
    ELSE Join(ts)

\* C12: a timestamp that holds a date-time, with or without a trailing "Z",
\* is displayed as YYYY-MM-DD HH:MM:SS, every other timestamp is displayed as
\* its raw text, unchanged; so for the metadata timestamp and for a run's
\* timestamp, a run without timestamp field included, and the call returns.
C12_Timestamps ==
    /\ (RunCalled /\ call.run_index = 0) =>
          result.value[6]
             = "<small>"
               \o Displayed(IF "timestamp" \in DOMAIN call.run_data
                            THEN call.run_data["timestamp"] ELSE <<>>)
               \o "</small>"
    /\ MetadataCalled =>
          LET metadata == call.data["metadata"]
              html == result.value
          IN IF "timestamp" \in DOMAIN metadata
             THEN \E k \in DOMAIN html :
                     /\ html[k] = "Timestamp"
                     /\ html[k + 1] = Displayed(metadata["timestamp"])
             ELSE "Timestamp" \notin Range(html)

\* C12 witness: a run whose timestamp has a "Z" and does not hold a date-time
\* was rendered with the raw text
C12_Witness ==
    /\ RunCalled
    /\ "timestamp" \in DOMAIN call.run_data
    /\ call.run_data["timestamp"] = <<"not-a-date", "Z">>
    /\ result.value[6] = "<small>not-a-dateZ</small>"

\* C12 witnesses of the other cases: a date-time with "Z" in the metadata, and
\* a run without timestamp field
C12_MetadataWitness ==
    /\ MetadataCalled
    /\ "timestamp" \in DOMAIN call.data["metadata"]
    /\ call.data["metadata"]["timestamp"] = <<"2024-01-01", "T", "12:30:45", "Z">>
    /\ "2024-01-01 12:30:45" \in Range(result.value)

C12_NoTimestampWitness ==
    /\ RunCalled
    /\ "timestamp" \notin DOMAIN call.run_data
    /\ result.value[6] = "<small></small>"

----------------------------------------------------------------------------
(* Claims about the check of the loaded document *)

\* the decoded value v is an empty value: null, {}, [], 0 or false
IsEmptyValue(v) ==
    \/ v.kind = "null"
    \/ v.kind = "object" /\ DOMAIN v.value = {}
    \/ v.kind = "array" /\ Len(v.items) = 0
    \/ v.kind = "number" /\ v.number = 0
    \/ v.kind = "boolean" /\ ~v.bool

\* the i-th file could not be loaded or decoded, or decodes to an empty value
NothingLoaded(i) ==
    json_files[i].content.kind = "invalid" \/ IsEmptyValue(json_files[i].content)

\* C13: convert_json_to_html returns False, creates no output directory and
\* writes no output file exactly when the file could not be loaded or decoded
\* or decodes to an empty value ({}, [], 0, false, null); every other value
\* gets past the check and the output directory is made for it, and every
\* non-empty object is rendered, the call ending with True or False.
C13_FalsyDocument ==
    \A i \in DOMAIN outcomes :
        /\ (outcomes[i].ret = "False" /\ ~outcomes[i].mkdir /\ ~fs[i].exists)
              <=> NothingLoaded(i)
        /\ ~NothingLoaded(i) => outcomes[i].mkdir
        /\ (json_files[i].content.kind = "object" /\ ~NothingLoaded(i))
              => outcomes[i].ret \in {"True", "False"}

\* C13 witness: in one batch the file with {} was refused without directory
\* and without output file, and the file with a non-empty object was written
C13_Witness ==
    /\ Len(outcomes) = 2
    /\ json_files[1].content.kind = "object"
    /\ json_files[1].content.value = EmptyObj
    /\ outcomes[1] = [ret |-> "False", mkdir |-> FALSE]
    /\ ~fs[1].exists
    /\ json_files[2].content.kind = "object"
    /\ json_files[2].content.value # EmptyObj
    /\ outcomes[2] = [ret |-> "True", mkdir |-> TRUE]
    /\ fs[2].exists

\* C13 witness of the other empty values: a file that is not JSON and a file
\* with false were both refused
C13_InvalidWitness ==
    /\ Len(outcomes) = 2
    /\ json_files[1].content.kind = "invalid"
    /\ json_files[2].content.kind = "boolean"
    /\ \A i \in 1..2 : outcomes[i] = [ret |-> "False", mkdir |-> FALSE] /\ ~fs[i].exists

====
